---- MODULE Spec2Model ----
(***************************************************************************)
(* Model of the MachineHealthCheck reconciler of cluster-api               *)
(* (controllers/machinehealthcheck_controller.go).                         *)
(*                                                                         *)
(* The object store holds one MachineHealthCheck (the policy), its         *)
(* Cluster, and the Machines the policy selects.  A Reconcile pass is a    *)
(* sequence of actions, one for every call the pass waits for: the fetch   *)
(* of the policy, the fetch of its Cluster, the remote client, the watch   *)
(* on the Nodes, the list of the Machines, the read of the Node of every   *)
(* listed Machine, one patch for every target, and the two requests of the *)
(* deferred patch of the policy, its object and its status.                *)
(* `pass` is the worker's memory of the pass and its record once           *)
(* it has ended; Return hands the result to the caller and clears it.  The *)
(* other actions are the environment: node health changes, pausing,        *)
(* deletion, spec edits.  They take place between any two calls of a pass. *)
(*                                                                         *)
(* An error value is the sequence of the failures it carries: <<>> is      *)
(* nil, <<e>> a single failure, <<e1, e2>> an aggregate of two.  Whether  *)
(* reconcile returns the error of one patch or the aggregate of its        *)
(* errList is told by the path of the pass.                                *)
(***************************************************************************)
EXTENDS Integers, Sequences, FiniteSets, TLC

VARIABLES
    mhcPresent,     \* the MachineHealthCheck object exists in the store
    clusterPresent, \* the Cluster named by m.Spec.ClusterName exists
    mhcPaused,      \* the policy carries the paused annotation
    clusterPaused,  \* cluster.Spec.Paused
    maxUnhealthy,   \* m.Spec.MaxUnhealthy: Nil or an IntOrString
    mhcMeta,        \* stored policy metadata: cluster label, owner reference
    status,         \* stored m.Status: ExpectedMachines, CurrentHealthy, Targets
    present,        \* the Machines selected by the policy (not being deleted)
    health,         \* per Machine: what needsRemediation answers right now
    remediation,    \* per Machine: stored MachineOwnerRemediated=False condition
    pass,           \* the pass that is running: its place, what it has read and done
    adm,            \* inputs and answer of one isAllowedRemediation call
    hist,           \* the last pass returned, while the store is as it left it
    router,         \* the objects the watch mapping functions list, and their answer
    wq              \* the controller's work queue and its workers

vars == <<mhcPresent, clusterPresent, mhcPaused, clusterPaused, maxUnhealthy,
          mhcMeta, status, present, health, remediation, pass, adm, hist, router, wq>>

storeVars == <<mhcPresent, clusterPresent, mhcPaused, clusterPaused, maxUnhealthy,
               mhcMeta, status, present, health, remediation>>

-----------------------------------------------------------------------------
(* Bounds *)

MaxMachines == 2

MaxExpected == 6

Machines == 1..MaxMachines

-----------------------------------------------------------------------------
(* Values *)

Nil == [Type |-> "Nil", IntVal |-> 0, StrVal |-> <<>>]

FromInt(i) == [Type |-> "Int", IntVal |-> i, StrVal |-> <<>>]

FromString(s) == [Type |-> "String", IntVal |-> 0, StrVal |-> s]

Digits == <<"0", "1", "2", "3", "4", "5", "6", "7", "8", "9">>

IsDigit(c) == \E d \in 1..10 : Digits[d] = c

DigitVal(c) == (CHOOSE d \in 1..10 : Digits[d] = c) - 1

NoErr == <<>>

NoResult == [Requeue |-> FALSE, RequeueAfter |-> 0]

Healthy == [needsRemediation |-> FALSE, nextCheck |-> 0]

Unhealthy == [needsRemediation |-> TRUE, nextCheck |-> 0]

Pending(d) == [needsRemediation |-> FALSE, nextCheck |-> d]

\* The longest time to the next check of a pending target.
MaxNextCheck == 2

\* The classes with every time to the next check.
TimedClasses == {Healthy, Unhealthy} \cup {Pending(d) : d \in 1..MaxNextCheck}

EmptyStatus == [ExpectedMachines |-> 0, CurrentHealthy |-> 0, Targets |-> <<>>]

EmptyMeta == [clusterLabel |-> FALSE, ownerRef |-> FALSE]

\* No pass is running.  pc is the next call of the pass, exit the way it
\* ended; max, mPaused, statusBefore and metaBefore are the policy as
\* fetched, mstatus its status in memory, targets the Machines as listed,
\* condListed their conditions as listed, node what the Node of each target
\* said when it was read, plan the targets in the order of their patches and
\* next the place of the next Node to read or target to patch; condBefore
\* are the stored conditions at the start of the pass; objPatch and
\* stPatch are the outcomes of the two requests of the deferred patch, for
\* the policy object and for its status, statusPatch the outcome of the
\* deferred patch as a whole; errList is the list reconcile keeps for the
\* errors of its targets, an entry being [machine, err].
NoPass == [pc |-> "idle", exit |-> "none", path |-> "none", result |-> NoResult,
           reconcileErr |-> NoErr, err |-> NoErr,
           decided |-> FALSE, allowed |-> FALSE, resolved |-> FALSE,
           statusPatch |-> "none", log |-> <<>>,
           condBefore |-> [m \in Machines |-> FALSE],
           condListed |-> [m \in Machines |-> FALSE],
           targets |-> <<>>, node |-> [m \in Machines |-> Healthy],
           healthy |-> <<>>, unhealthy |-> <<>>, nextCheckTimes |-> <<>>,
           plan |-> <<>>, next |-> 0, objPatch |-> "none", stPatch |-> "none",
           errList |-> <<>>,
           fault |-> [call |-> "None", machine |-> 0],
           max |-> Nil, mPaused |-> FALSE,
           statusBefore |-> EmptyStatus, metaBefore |-> EmptyMeta,
           mstatus |-> EmptyStatus]

\* No pass has returned since the store last changed.
NoHist == [valid |-> FALSE, exit |-> "none", fault |-> [call |-> "None", machine |-> 0],
           objPatch |-> "none", stPatch |-> "none", clean |-> FALSE]

\* A Machine as the mapping functions see it, and no Machine.
NoMachine == [ns |-> "none", cluster |-> "none", labels |-> {}, nodeRef |-> "none"]

\* The mapping functions have not been called.  found is the Machine the
\* Node mapping has looked up, pending says that it has still to list the
\* policies of that Machine.
NoEvent == [kind |-> "none", machine |-> 0, node |-> "none",
            machineListFail |-> FALSE, mhcListFail |-> FALSE,
            found |-> NoMachine, pending |-> FALSE]

NoRouter == [machines |-> <<>>, policies |-> <<>>, event |-> NoEvent, requests |-> <<>>]

\* An empty work queue with idle workers.
NoQueue == [queue |-> <<>>, dirty |-> {}, processing |-> <<>>, waiting |-> {}, owed |-> {}]

NoAdm == [max |-> Nil, expected |-> 0, healthy |-> 0, allowed |-> TRUE, done |-> FALSE]

-----------------------------------------------------------------------------
(* Library functions the controller calls *)

\* strconv.Atoi on a string given as its characters: an optional sign, then
\* one or more decimal digits, and nothing else.
RECURSIVE DigitsValue(_)
DigitsValue(s) ==
    IF Len(s) = 0 THEN 0
    ELSE 10 * DigitsValue(SubSeq(s, 1, Len(s) - 1)) + DigitVal(s[Len(s)])

Atoi(s) ==
    LET signed == Len(s) > 0 /\ s[1] \in {"+", "-"}
        body   == IF signed THEN Tail(s) ELSE s
        ok     == Len(body) > 0 /\ \A i \in 1..Len(body) : IsDigit(body[i])
        mag    == IF ok THEN DigitsValue(body) ELSE 0
    IN  [ok |-> ok, val |-> IF signed /\ s[1] = "-" THEN 0 - mag ELSE mag]

\* strings.Replace(s, "%", "", -1)
StripPercent(s) == SelectSeq(s, LAMBDA c : c # "%")

\* GetValueFromIntOrPercent called with roundUp = true.
GetValueFromIntOrPercentRoundUp(v, total) ==
    IF v.Type = "Int" THEN [ok |-> TRUE, val |-> v.IntVal]
    ELSE IF v.Type = "String" THEN
        LET a == Atoi(StripPercent(v.StrVal))
        IN  IF a.ok THEN [ok |-> TRUE, val |-> ((a.val * total) + 99) \div 100]
            ELSE [ok |-> FALSE, val |-> 0]
    ELSE [ok |-> FALSE, val |-> 0]

\* intstr.GetValueFromIntOrPercent(v, total, roundUp = false): an Int is its
\* value; a String has every "%" removed, is parsed as an integer, and is
\* taken as a percentage of total, rounded down.
GetValueFromIntOrPercent(v, total) ==
    IF v.Type = "Int" THEN [ok |-> TRUE, val |-> v.IntVal]
    ELSE IF v.Type = "String" THEN
        LET a == Atoi(StripPercent(v.StrVal))
        IN  IF a.ok THEN [ok |-> TRUE, val |-> (a.val * total) \div 100]
            ELSE [ok |-> FALSE, val |-> 0]
    ELSE [ok |-> FALSE, val |-> 0]

\* kerrors.NewAggregate: the nil entries are dropped; no entry left is nil.
RECURSIVE NewAggregate(_)
NewAggregate(errlist) ==
    IF Len(errlist) = 0 THEN NoErr
    ELSE Head(errlist) \o NewAggregate(Tail(errlist))

\* IsPaused looking at the Cluster alone.
IsPausedClusterOnly(specPaused, annotated) == specPaused

\* annotations.IsPaused(cluster, m): cluster.Spec.Paused, or the paused
\* annotation on m.
IsPaused(specPaused, annotated) == specPaused \/ annotated

-----------------------------------------------------------------------------
(* isAllowedRemediation *)

\* isAllowedRemediation comparing with < instead of <=.
isAllowedRemediationStrict(max, expectedMachines, currentHealthy) ==
    IF max.Type = "Nil" THEN TRUE
    ELSE LET r == GetValueFromIntOrPercent(max, expectedMachines)
             unhealthy == expectedMachines - currentHealthy
         IN  IF ~r.ok THEN FALSE
             ELSE unhealthy < r.val

\* isAllowedRemediation allowing remediation when MaxUnhealthy does not resolve.
isAllowedRemediationFailOpen(max, expectedMachines, currentHealthy) ==
    IF max.Type = "Nil" THEN TRUE
    ELSE LET r == GetValueFromIntOrPercent(max, expectedMachines)
             unhealthy == expectedMachines - currentHealthy
         IN  IF ~r.ok THEN TRUE
             ELSE unhealthy <= r.val

isAllowedRemediation(max, expectedMachines, currentHealthy) ==
    IF max.Type = "Nil" THEN TRUE
    ELSE LET r == GetValueFromIntOrPercent(max, expectedMachines)
             unhealthy == expectedMachines - currentHealthy
         IN  IF ~r.ok THEN FALSE
             ELSE unhealthy <= r.val

-----------------------------------------------------------------------------
(* Targets and their health check *)

RECURSIVE SortedSeq(_)
SortedSeq(S) ==
    IF S = {} THEN <<>>
    ELSE LET x == CHOOSE y \in S : \A z \in S : y <= z
         IN  <<x>> \o SortedSeq(S \ {x})

\* getTargetsFromMHC, its list of the Machines: one target per selected
\* Machine, in list order.  The Node of each target is read afterwards, one
\* call for each.
getTargetsFromMHC == SortedSeq(present)

\* healthCheckTargets: needsRemediation is asked of every target, node[t]
\* being the Node the target carries; a target that needs remediation is
\* unhealthy, one with a next check time is kept out of both lists and
\* contributes that time, any other target is healthy.
healthCheckTargets(targets, node) ==
    [healthy        |-> SelectSeq(targets, LAMBDA t : node[t] = Healthy),
     unhealthy      |-> SelectSeq(targets, LAMBDA t : node[t].needsRemediation),
     nextCheckTimes |-> LET pend == SelectSeq(targets, LAMBDA t :
                                        ~node[t].needsRemediation /\ node[t].nextCheck > 0)
                        IN  [i \in 1..Len(pend) |-> node[pend[i]].nextCheck]]

\* minDuration: zero for an empty list, else the least entry.
minDuration(durations) ==
    IF Len(durations) = 0 THEN 0
    ELSE CHOOSE d \in {durations[i] : i \in 1..Len(durations)} :
             \A i \in 1..Len(durations) : d <= durations[i]

-----------------------------------------------------------------------------
(* The log of a pass: recorder events and patch calls, in program order *)

NoArgs == [total |-> 0, unhealthy |-> 0, maxUnhealthy |-> Nil]

Event(obj, reason, args) == [op |-> "Event", obj |-> obj, reason |-> reason, args |-> args]

PatchCall(obj, ok) ==
    [op |-> "Patch", obj |-> obj, reason |-> IF ok THEN "ok" ELSE "failed", args |-> NoArgs]

\* The policy is object 0 of the log, Machine i is object i.
PolicyObj == 0

\* Faults: a call of the pass that fails.  Every step of a pass draws its own.
NoFault == [call |-> "None", machine |-> 0]

Fault(c) == [call |-> c, machine |-> 0]

\* The request of the policy this model follows through its pass.
Reconciled == 1

-----------------------------------------------------------------------------
(* The work queue of the controller SetupWithManager builds.  wq.queue are *)
(* the requests waiting for a worker, wq.dirty the requests added and not  *)
(* yet handed out, wq.processing the requests whose pass is running,       *)
(* wq.waiting the requests a pass asked to add again later.  wq.owed       *)
(* notes the policies with a trigger no pass has started after.            *)

\* The policies with requests, and the workers options.MaxConcurrentReconciles gives.
MaxPolicies == 3

MaxWorkers == 2

Policies == 1..MaxPolicies

Range(seq) == {seq[i] : i \in 1..Len(seq)}

\* Queue.Add without the dirty set: every request is appended.
QueueAddAlways(q, p) ==
    [q EXCEPT !.dirty = @ \cup {p}, !.queue = Append(@, p)]

\* Queue.Add: a request already added is dropped, one whose pass is running
\* is kept in the dirty set only.
QueueAdd(q, p) ==
    IF p \in q.dirty THEN q
    ELSE IF p \in Range(q.processing) THEN [q EXCEPT !.dirty = @ \cup {p}]
    ELSE [q EXCEPT !.dirty = @ \cup {p}, !.queue = Append(@, p)]

\* Queue.Get: the first request leaves the queue and the dirty set.
QueueGet(q) ==
    [q EXCEPT !.queue = Tail(@),
              !.processing = Append(@, Head(q.queue)),
              !.dirty = @ \ {Head(q.queue)}]

\* Queue.Done: the request is queued again when it was added meanwhile.
QueueDone(q, p) ==
    LET notP(x) == x # p
        rest == [q EXCEPT !.processing = SelectSeq(@, notP)]
    IN  IF p \in q.dirty THEN [rest EXCEPT !.queue = Append(@, p)] ELSE rest

\* A worker is free and the first request of the queue is for policy p.
Handed(p) ==
    /\ wq.queue # <<>>
    /\ Head(wq.queue) = p
    /\ Len(wq.processing) < MaxWorkers

\* The worker takes the first request off the queue.
Taken == [QueueGet(wq) EXCEPT !.owed = @ \ {Head(wq.queue)}]

\* The worker is through with the request of policy p; on an error or a
\* requeue result the request is handed to the rate limiter before Done.
Finished(p, requeue) ==
    [QueueDone(wq, p) EXCEPT !.waiting = IF requeue THEN @ \cup {p} ELSE @]

-----------------------------------------------------------------------------
(* reconcile: the core of a pass, call by call *)

\* A denied pass returning the empty Result.
DeniedResultNoRequeue == NoResult

\* The Result a denied pass returns once its patches are through.
DeniedResult == [Requeue |-> TRUE, RequeueAfter |-> 0]

\* AllowedResult never asking for the next check.
AllowedResultNoNextCheck(nextCheckTimes) == NoResult

\* The Result a pass allowed to remediate returns once its patches are
\* through: a requeue after the least time to a next check, if there is one.
AllowedResult(nextCheckTimes) ==
    IF minDuration(nextCheckTimes) > 0
    THEN [Requeue |-> FALSE, RequeueAfter |-> minDuration(nextCheckTimes)]
    ELSE NoResult

\* Marks setting the condition in a denied pass too.
MarksWhenDenied(allowed, unhealthy, t) == t \in Range(unhealthy)

\* The patch of target t carries the remediation condition: conditions.MarkFalse
\* is called in the loop over the unhealthy targets of an allowed pass only.
Marks(allowed, unhealthy, t) == allowed /\ t \in Range(unhealthy)

\* PatchPlan patching the healthy targets before it marks the unhealthy ones.
PatchPlanHealthyFirst(allowed, hc) == hc.healthy \o hc.unhealthy

\* The targets in the order their patches are made: a denied pass walks
\* append(healthy, unhealthy...), an allowed one the unhealthy targets and
\* then the healthy ones.
PatchPlan(allowed, hc) ==
    IF allowed THEN hc.unhealthy \o hc.healthy ELSE hc.healthy \o hc.unhealthy

\* MarkedBy storing no condition.
MarkedByNone(rem, t, ok) == rem

\* MarkedBy undoing the marks of the pass when a patch fails.
MarkedByRollback(rem, t, ok) ==
    IF ok THEN [rem EXCEPT ![t] = TRUE] ELSE pass.condBefore

\* The stored conditions after the patch of target t that carries the
\* remediation condition: a patch that succeeds stores it.
MarkedBy(rem, t, ok) == IF ok THEN [rem EXCEPT ![t] = TRUE] ELSE rem

\* The event recorded when remediation is short-circuited.
RestrictedEvent(totalTargets, currentHealthy, max) ==
    Event(PolicyObj, "RemediationRestricted",
          [total |-> totalTargets, unhealthy |-> currentHealthy, maxUnhealthy |-> max])

\* NewStatus keeping a count the policy already has.
NewStatusInherited(targets, hc) ==
    [ExpectedMachines |-> IF pass.statusBefore.ExpectedMachines > 0
                          THEN pass.statusBefore.ExpectedMachines ELSE Len(targets),
     CurrentHealthy   |-> Len(hc.healthy),
     Targets          |-> targets]

\* NewStatus adding to the count of healthy targets the policy already has.
NewStatusAccumulating(targets, hc) ==
    [ExpectedMachines |-> Len(targets),
     CurrentHealthy   |-> pass.statusBefore.CurrentHealthy + Len(hc.healthy),
     Targets          |-> targets]

\* m.Status as reconcile sets it from the targets and their health check.
NewStatus(targets, hc) ==
    [ExpectedMachines |-> Len(targets),
     CurrentHealthy   |-> Len(hc.healthy),
     Targets          |-> targets]

\* ErrorEvent recording nothing.
ErrorEventNever(err) == <<>>

\* The warning event Reconcile records when reconcile returns an error.
ErrorEvent(err) ==
    IF err # NoErr THEN <<Event(PolicyObj, "ReconcileError", NoArgs)>> ELSE <<>>

\* reconcile returns err from the call named by fault: Reconcile records the
\* event, and what is left of the pass is the deferred patch.
Failed(p, path, fault, err) ==
    [p EXCEPT !.pc = "status", !.path = path, !.fault = fault,
              !.reconcileErr = err, !.result = NoResult,
              !.log = @ \o ErrorEvent(err)]

\* The loops of reconcile are through: reconcile returns its Result, or,
\* after the loops of an allowed pass, the aggregate of errList when the
\* list has an entry.  A failing patch returns at once and adds no entry.
Through(p) ==
    IF p.allowed /\ Len(p.errList) > 0
    THEN Failed(p, "errList", NoFault,
                NewAggregate([i \in 1..Len(p.errList) |-> p.errList[i].err]))
    ELSE [p EXCEPT !.pc = "status",
                   !.path = IF ~p.allowed THEN "denied"
                            ELSE IF minDuration(p.nextCheckTimes) > 0 THEN "requeueAfter"
                            ELSE "complete",
                   !.result = IF ~p.allowed THEN DeniedResult
                              ELSE AllowedResult(p.nextCheckTimes)]

\* The record after the patch of a target, or with no target left to patch.
Advance(p) == IF p.next > Len(p.plan) THEN Through(p) ELSE p

-----------------------------------------------------------------------------
(* Reconcile: one pass, one action for every call that reads or writes the *)
(* store.  The pass keeps what it has read in its record: the policy as    *)
(* fetched, the targets as listed.  Nothing holds the store still between  *)
(* two calls.                                                              *)

\* EarlyExit returning an error on every path, the silent ones included.
EarlyExitAlwaysError(p, exit, err) ==
    [p EXCEPT !.pc = "done", !.exit = exit, !.path = exit,
              !.err = IF err = NoErr THEN <<"GetMHC">> ELSE err]

\* A pass that returns before the patch helper exists: nothing is written.
EarlyExit(p, exit, err) ==
    [p EXCEPT !.pc = "done", !.exit = exit, !.path = exit, !.err = err]

\* The record of a pass that starts now: what the store holds for the
\* policy and the conditions of the Machines, before the pass.
Started ==
    [NoPass EXCEPT !.condBefore = remediation, !.statusBefore = status,
                   !.mstatus = status, !.metaBefore = mhcMeta,
                   !.max = maxUnhealthy, !.mPaused = mhcPaused]

\* r.Client.Get of the policy, at the start of the pass of the request the
\* worker has taken.
GetPolicy(fail) ==
    /\ pass.pc = "idle"
    /\ Handed(Reconciled)
    /\ wq' = Taken
    /\ pass' = IF fail THEN EarlyExit(Started, "getError", <<"GetMHC">>)
               ELSE IF ~mhcPresent THEN EarlyExit(Started, "mhcNotFound", NoErr)
               ELSE [Started EXCEPT !.pc = "cluster"]
    /\ UNCHANGED <<storeVars, adm, router>>

\* util.GetClusterByName, the pause check and patch.NewHelper.
GetCluster(fault) ==
    /\ pass.pc = "cluster"
    /\ pass' = IF fault.call = "GetCluster"
               THEN EarlyExit(pass, "clusterGetError", <<"GetCluster">>)
               ELSE IF ~clusterPresent
               THEN EarlyExit(pass, "clusterNotFound", <<"GetCluster">>)
               ELSE IF IsPaused(clusterPaused, pass.mPaused)
               THEN EarlyExit(pass, "paused", NoErr)
               ELSE IF fault.call = "NewHelper"
               THEN EarlyExit(pass, "helperError", <<"NewHelper">>)
               ELSE [pass EXCEPT !.pc = "client"]
    /\ UNCHANGED <<storeVars, adm, hist, router, wq>>

\* r.Tracker.GetClient, after the owner reference is set in memory.
GetClient(fail) ==
    /\ pass.pc = "client"
    /\ pass' = IF fail THEN Failed(pass, "getClient", Fault("GetClient"), <<"GetClient">>)
               ELSE [pass EXCEPT !.pc = "watch"]
    /\ UNCHANGED <<storeVars, adm, hist, router, wq>>

\* watchClusterNodes: r.Tracker.Watch.
watchClusterNodes(fail) ==
    /\ pass.pc = "watch"
    /\ pass' = IF fail THEN Failed(pass, "watchNodes", Fault("WatchNodes"), <<"WatchNodes">>)
               ELSE [pass EXCEPT !.pc = "list"]
    /\ UNCHANGED <<storeVars, adm, hist, router, wq>>

\* reconcile from the targets to the admission decision, once every Node is
\* read: the status in memory, the health check of the targets as the pass
\* holds them, the decision and, when remediation is denied, the event that
\* says so.  No call is made on the way.
Decided(p) ==
    LET hc      == healthCheckTargets(p.targets, p.node)
        st      == NewStatus(p.targets, hc)
        allowed == isAllowedRemediation(p.max, st.ExpectedMachines, st.CurrentHealthy)
    IN  Advance([p EXCEPT
            !.pc = "patch",
            !.mstatus = st,
            !.decided = TRUE, !.resolved = TRUE, !.allowed = allowed,
            !.healthy = hc.healthy, !.unhealthy = hc.unhealthy,
            !.nextCheckTimes = hc.nextCheckTimes,
            !.plan = PatchPlan(allowed, hc), !.next = 1,
            !.log = IF allowed THEN <<>>
                    ELSE <<RestrictedEvent(st.ExpectedMachines, st.CurrentHealthy, p.max)>>])

\* The Nodes of the targets are read one by one; after the last of them
\* getTargetsFromMHC returns and reconcile decides.
NextNode(p) == IF p.next > Len(p.targets) THEN Decided(p) ELSE p

\* getTargetsFromMHC, first call: the list of the Machines the policy
\* selects, as the store holds them now.
ListMachines(fail) ==
    /\ pass.pc = "list"
    /\ pass' = IF fail THEN Failed(pass, "getTargets", Fault("GetTargets"), <<"GetTargets">>)
               ELSE NextNode([pass EXCEPT !.pc = "nodes",
                                          !.targets = getTargetsFromMHC,
                                          !.condListed = remediation,
                                          !.next = 1])
    /\ UNCHANGED <<storeVars, adm, hist, router, wq>>

\* getTargetsFromMHC, one call for each listed Machine: its Node is read
\* from the workload cluster, as it is now.
GetNode(fail) ==
    LET t == pass.targets[pass.next]
    IN  /\ pass.pc = "nodes"
        /\ pass' = IF fail
                   THEN Failed(pass, "getTargets", [call |-> "GetNode", machine |-> t],
                               <<"GetTargets">>)
                   ELSE NextNode([pass EXCEPT !.node[t] = health[t], !.next = @ + 1])
        /\ UNCHANGED <<storeVars, adm, hist, router, wq>>

\* The patch of the next target changes the stored Machine.
Changes(t) ==
    Marks(pass.allowed, pass.unhealthy, t) /\ ~pass.condListed[t]

\* t.patchHelper.Patch of the next target of the plan.  The patch of a
\* Machine that is gone fails when it has a change to store.
PatchTarget(fail) ==
    LET t     == pass.plan[pass.next]
        marks == Marks(pass.allowed, pass.unhealthy, t)
        phase == IF ~pass.allowed THEN "deniedPatchError"
                 ELSE IF marks THEN "markPatchError" ELSE "healthyPatchError"
    IN  /\ pass.pc = "patch"
        /\ (t \notin present /\ Changes(t)) => fail
        /\ remediation' = IF Changes(t) /\ t \in present
                          THEN MarkedBy(remediation, t, ~fail)
                          ELSE remediation
        /\ pass' =
             IF fail
             THEN Failed([pass EXCEPT !.log = Append(@, PatchCall(t, FALSE))],
                         phase, [call |-> "PatchMachine", machine |-> t], <<"PatchMachine">>)
             ELSE Advance([pass EXCEPT
                     !.next = @ + 1,
                     !.log = Append(@, PatchCall(t, TRUE))
                             \o (IF pass.allowed /\ t \in Range(pass.unhealthy)
                                 THEN <<Event(t, "MachineMarkedUnhealthy", NoArgs)>>
                                 ELSE <<>>)])
        /\ UNCHANGED <<mhcPresent, clusterPresent, mhcPaused, clusterPaused, maxUnhealthy,
                       mhcMeta, status, present, health, adm, hist, router, wq>>

\* The status patch made at the end of the successful path only, not deferred.
DeferredPatchOnSuccess(reterr, statusFail) ==
    IF reterr # NoErr THEN [patch |-> "none", err |-> reterr]
    ELSE IF statusFail THEN [patch |-> "failed", err |-> <<"PatchStatus">>]
    ELSE [patch |-> "ok", err |-> reterr]

\* The deferred function assigning the patch error over the returned one.
DeferredPatchMasking(reterr, statusFail) ==
    IF statusFail
    THEN [patch |-> "failed", err |-> <<"PatchStatus">>]
    ELSE [patch |-> "ok", err |-> reterr]

\* The deferred function of Reconcile: the status patch is attempted, and
\* its failure is aggregated with the error being returned.
DeferredPatch(reterr, statusFail) ==
    IF statusFail
    THEN [patch |-> "failed", err |-> NewAggregate(<<reterr, <<"PatchStatus">> >>)]
    ELSE [patch |-> "ok", err |-> reterr]

\* What Reconcile returns after reconcile: its result, or the empty Result
\* when reconcile failed.
ReturnedResult(r) == IF r.err # NoErr THEN NoResult ELSE r.result

\* The policy metadata of a pass that got to reconcile: the cluster label
\* and the owner reference.
FullMeta == [clusterLabel |-> TRUE, ownerRef |-> TRUE]

\* The policy in memory differs from the policy as fetched: in its metadata,
\* in its status.
MetaChanged == pass.metaBefore # FullMeta

StatusChanged == pass.mstatus # pass.statusBefore

\* A patch stores the fields that differ from the object as fetched, and
\* leaves the others as the store has them.
Merged(stored, before, after) ==
    [f \in DOMAIN stored |-> IF after[f] # before[f] THEN after[f] ELSE stored[f]]

\* The deferred patchHelper.Patch of the policy, first request: the object,
\* with its label and its owner reference.  The request for a policy that
\* is gone fails when it has a change to store.  Whether it fails or not,
\* the request for the status follows.
PatchObject(fail) ==
    /\ pass.pc = "status"
    /\ (~mhcPresent /\ MetaChanged) => fail
    /\ pass' = [pass EXCEPT !.pc = "substatus",
                            !.objPatch = IF fail THEN "failed" ELSE "ok"]
    /\ mhcMeta' = IF ~fail /\ mhcPresent
                  THEN Merged(mhcMeta, pass.metaBefore, FullMeta)
                  ELSE mhcMeta
    /\ UNCHANGED <<mhcPresent, clusterPresent, mhcPaused, clusterPaused, maxUnhealthy,
                   status, present, health, remediation, adm, hist, router, wq>>

\* The deferred patchHelper.Patch of the policy, second request: the status
\* subresource; then the return of Reconcile.  Patch returns an error when
\* one of its requests has failed.
PatchStatus(statusFail) ==
    LET d == DeferredPatch(pass.reconcileErr, statusFail \/ pass.objPatch = "failed")
    IN  /\ pass.pc = "substatus"
        /\ (~mhcPresent /\ StatusChanged) => statusFail
        /\ pass' = [pass EXCEPT
                      !.pc = "done",
                      !.exit = IF pass.reconcileErr # NoErr THEN "reconcileError" ELSE "done",
                      !.result = ReturnedResult([err |-> pass.reconcileErr,
                                                 result |-> pass.result]),
                      !.err = d.err,
                      !.statusPatch = d.patch,
                      !.stPatch = IF d.patch = "none" THEN "none"
                                  ELSE IF statusFail THEN "failed" ELSE "ok",
                      !.log = @ \o (IF d.patch = "none" THEN <<>>
                                    ELSE <<PatchCall(PolicyObj, d.patch = "ok")>>)]
        /\ status' = IF ~statusFail /\ d.patch # "none" /\ mhcPresent
                     THEN Merged(status, pass.statusBefore, pass.mstatus)
                     ELSE status
        /\ UNCHANGED <<mhcPresent, clusterPresent, mhcPaused, clusterPaused, maxUnhealthy,
                       mhcMeta, present, health, remediation, adm, hist, router, wq>>

\* A worker takes the request of the policy off the queue and Reconcile
\* starts.
ReconcileRequest ==
    /\ \E fail \in BOOLEAN : GetPolicy(fail)
    /\ UNCHANGED hist

\* The request goes back to the queue when the pass returns an error or
\* asks for it.
Requeues(p) == p.err # NoErr \/ p.result.Requeue \/ p.result.RequeueAfter > 0

\* The pass hands its result to the caller, and the worker is through with
\* the request.
Return ==
    /\ pass.pc = "done"
    /\ pass' = NoPass
    /\ wq' = Finished(Reconciled, Requeues(pass))
    /\ UNCHANGED <<storeVars, adm, hist, router>>

\* ReconcileRequest of a pass that is noted when it returns: hist.clean
\* says that the store has not changed since the pass started.
ReconcileRequestRecorded ==
    /\ \E fail \in BOOLEAN : GetPolicy(fail)
    /\ hist' = [hist EXCEPT !.clean = TRUE]

\* Return, with the pass noted in hist so that the next pass can be compared
\* with it; hist is forgotten as soon as the store changes.
ReturnRecorded ==
    /\ pass.pc = "done"
    /\ pass' = NoPass
    /\ wq' = Finished(Reconciled, Requeues(pass))
    /\ hist' = [valid |-> hist.clean, exit |-> pass.exit, fault |-> pass.fault,
                objPatch |-> pass.objPatch, stPatch |-> pass.stPatch, clean |-> FALSE]
    /\ UNCHANGED <<storeVars, adm, router>>

-----------------------------------------------------------------------------
(* The environment of the controller *)

RECURSIVE Itoa(_)
Itoa(n) == IF n < 10 THEN <<Digits[n + 1]>> ELSE Itoa(n \div 10) \o <<Digits[(n % 10) + 1]>>

Percent(p) == FromString(Itoa(p) \o <<"%">>)

\* Strings that are no integer once their "%" are removed.
MalformedStrings == {<<>>, <<"%">>, <<"x">>, <<"5", "x", "%">>, <<"-">>}

\* The MaxUnhealthy values a policy of the model may carry.
MaxUnhealthyValues == {Nil, FromInt(1), Percent(50), FromString(<<"x">>)}

\* No pass stands at its return: the environment moves between any two
\* calls of a pass, and a pass that has ended returns at once.
NotReturning == pass.pc # "done"

\* A Node condition changes, or a timeout runs out: needsRemediation answers
\* differently for Machine m from now on.
NodeHealthChange(m, c) ==
    /\ NotReturning
    /\ hist' = NoHist
    /\ m \in present
    /\ health[m] # c
    /\ health' = [health EXCEPT ![m] = c]
    /\ UNCHANGED <<mhcPresent, clusterPresent, mhcPaused, clusterPaused, maxUnhealthy,
                   mhcMeta, status, present, remediation, pass, adm, router, wq>>

\* A Machine matching the selector is created.
AddMachine(m, c) ==
    /\ NotReturning
    /\ hist' = NoHist
    /\ m \notin present
    /\ present' = present \cup {m}
    /\ health' = [health EXCEPT ![m] = c]
    /\ UNCHANGED <<mhcPresent, clusterPresent, mhcPaused, clusterPaused, maxUnhealthy,
                   mhcMeta, status, remediation, pass, adm, router, wq>>

\* A selected Machine is deleted, conditions and all.  Its Node is another
\* object, in the workload cluster, and stays as it is.
RemoveMachine(m) ==
    /\ NotReturning
    /\ hist' = NoHist
    /\ m \in present
    /\ present' = present \ {m}
    /\ remediation' = [remediation EXCEPT ![m] = FALSE]
    /\ UNCHANGED <<mhcPresent, clusterPresent, mhcPaused, clusterPaused, maxUnhealthy,
                   mhcMeta, status, health, pass, adm, router, wq>>

SetMHCPaused(b) ==
    /\ NotReturning
    /\ hist' = NoHist
    /\ mhcPresent
    /\ mhcPaused # b
    /\ mhcPaused' = b
    /\ UNCHANGED <<mhcPresent, clusterPresent, clusterPaused, maxUnhealthy,
                   mhcMeta, status, present, health, remediation, pass, adm, router, wq>>

SetClusterPaused(b) ==
    /\ NotReturning
    /\ hist' = NoHist
    /\ clusterPresent
    /\ clusterPaused # b
    /\ clusterPaused' = b
    /\ UNCHANGED <<mhcPresent, clusterPresent, mhcPaused, maxUnhealthy,
                   mhcMeta, status, present, health, remediation, pass, adm, router, wq>>

SetMaxUnhealthy(v) ==
    /\ NotReturning
    /\ hist' = NoHist
    /\ mhcPresent
    /\ maxUnhealthy # v
    /\ maxUnhealthy' = v
    /\ UNCHANGED <<mhcPresent, clusterPresent, mhcPaused, clusterPaused,
                   mhcMeta, status, present, health, remediation, pass, adm, router, wq>>

\* The policy object is deleted: its spec, metadata and status go with it.
DeleteMHC ==
    /\ NotReturning
    /\ hist' = NoHist
    /\ mhcPresent
    /\ mhcPresent' = FALSE
    /\ mhcPaused' = FALSE
    /\ maxUnhealthy' = Nil
    /\ mhcMeta' = EmptyMeta
    /\ status' = EmptyStatus
    /\ UNCHANGED <<clusterPresent, clusterPaused, present, health, remediation, pass, adm, router, wq>>

CreateMHC(v) ==
    /\ NotReturning
    /\ hist' = NoHist
    /\ ~mhcPresent
    /\ mhcPresent' = TRUE
    /\ maxUnhealthy' = v
    /\ UNCHANGED <<clusterPresent, mhcPaused, clusterPaused, mhcMeta, status,
                   present, health, remediation, pass, adm, router, wq>>

DeleteCluster ==
    /\ NotReturning
    /\ hist' = NoHist
    /\ clusterPresent
    /\ clusterPresent' = FALSE
    /\ clusterPaused' = FALSE
    /\ UNCHANGED <<mhcPresent, mhcPaused, maxUnhealthy, mhcMeta, status,
                   present, health, remediation, pass, adm, router, wq>>

CreateCluster ==
    /\ NotReturning
    /\ hist' = NoHist
    /\ ~clusterPresent
    /\ clusterPresent' = TRUE
    /\ UNCHANGED <<mhcPresent, mhcPaused, clusterPaused, maxUnhealthy, mhcMeta, status,
                   present, health, remediation, pass, adm, router, wq>>

\* A watch or a mapping function enqueues a request for policy p.
Enqueue(p) ==
    /\ wq' = [QueueAdd(wq, p) EXCEPT !.owed = @ \cup {p}]
    /\ UNCHANGED <<storeVars, pass, adm, hist, router>>

-----------------------------------------------------------------------------
(* Specification of the controller *)

Init ==
    /\ mhcPresent = TRUE
    /\ clusterPresent = TRUE
    /\ mhcPaused = FALSE
    /\ clusterPaused = FALSE
    /\ maxUnhealthy \in MaxUnhealthyValues
    /\ mhcMeta = EmptyMeta
    /\ status = EmptyStatus
    /\ present \in {1..k : k \in 0..MaxMachines}
    /\ health = [m \in Machines |-> Healthy]
    /\ remediation = [m \in Machines |-> FALSE]
    /\ pass = NoPass
    /\ adm = NoAdm
    /\ hist = NoHist
    /\ router = NoRouter
    /\ wq = NoQueue

\* The calls of Reconcile up to the patch helper, and those that may fail.
PassFaults == {Fault(c) : c \in {"None", "GetCluster", "NewHelper"}}

(* The passes over a policy and a Cluster that stay in place and unpaused: *)
(* every call of a pass may fail, and node health changes between any two  *)
(* calls.                                                                  *)

Next ==
    \/ \E p \in {Reconciled} : Enqueue(p)
    \/ ReconcileRequest
    \/ \E f \in PassFaults : GetCluster(f)
    \/ \E fail \in BOOLEAN : GetClient(fail)
    \/ \E fail \in BOOLEAN : watchClusterNodes(fail)
    \/ \E fail \in BOOLEAN : ListMachines(fail)
    \/ \E fail \in BOOLEAN : GetNode(fail)
    \/ \E fail \in BOOLEAN : PatchTarget(fail)
    \/ \E fail \in BOOLEAN : PatchObject(fail)
    \/ \E fail \in BOOLEAN : PatchStatus(fail)
    \/ Return
    \/ \E m \in Machines, c \in {Healthy, Unhealthy} : NodeHealthChange(m, c)

Spec == Init /\ [][Next]_vars

-----------------------------------------------------------------------------
(* Specification of the ways out of a pass: the policy and its Cluster are *)
(* paused, resumed, deleted and created again between any two calls of a   *)
(* pass over one unhealthy Machine.                                        *)

InitExits ==
    /\ mhcPresent = TRUE
    /\ clusterPresent = TRUE
    /\ mhcPaused = FALSE
    /\ clusterPaused = FALSE
    /\ maxUnhealthy = Nil
    /\ mhcMeta = EmptyMeta
    /\ status = EmptyStatus
    /\ present = {1}
    /\ health = [m \in Machines |-> IF m = 1 THEN Unhealthy ELSE Healthy]
    /\ remediation = [m \in Machines |-> FALSE]
    /\ pass = NoPass
    /\ adm = NoAdm
    /\ hist = NoHist
    /\ router = NoRouter
    /\ wq = NoQueue

NextExits ==
    \/ \E p \in {Reconciled} : Enqueue(p)
    \/ ReconcileRequest
    \/ \E f \in PassFaults : GetCluster(f)
    \/ \E fail \in BOOLEAN : GetClient(fail)
    \/ \E fail \in BOOLEAN : watchClusterNodes(fail)
    \/ \E fail \in BOOLEAN : ListMachines(fail)
    \/ \E fail \in BOOLEAN : GetNode(fail)
    \/ \E fail \in BOOLEAN : PatchTarget(fail)
    \/ \E fail \in BOOLEAN : PatchObject(fail)
    \/ \E fail \in BOOLEAN : PatchStatus(fail)
    \/ Return
    \/ \E b \in BOOLEAN : SetMHCPaused(b)
    \/ \E b \in BOOLEAN : SetClusterPaused(b)
    \/ \E v \in MaxUnhealthyValues : SetMaxUnhealthy(v)
    \/ DeleteMHC
    \/ \E v \in MaxUnhealthyValues : CreateMHC(v)
    \/ DeleteCluster
    \/ CreateCluster

SpecExits == InitExits /\ [][NextExits]_vars

-----------------------------------------------------------------------------
(* Specification of the admission decision alone: isAllowedRemediation is  *)
(* applied once to inputs drawn from every count up to MaxExpected and     *)
(* every kind of MaxUnhealthy.                                             *)

AdmissionValues ==
    {Nil} \cup {FromInt(i) : i \in 0..MaxExpected}
          \cup {Percent(p) : p \in 0..100}
          \cup {FromString(s) : s \in MalformedStrings}

InitAdmission ==
    /\ mhcPresent = TRUE
    /\ clusterPresent = TRUE
    /\ mhcPaused = FALSE
    /\ clusterPaused = FALSE
    /\ maxUnhealthy = Nil
    /\ mhcMeta = EmptyMeta
    /\ status = EmptyStatus
    /\ present = {}
    /\ health = [m \in Machines |-> Healthy]
    /\ remediation = [m \in Machines |-> FALSE]
    /\ pass = NoPass
    /\ hist = NoHist
    /\ router = NoRouter
    /\ wq = NoQueue
    /\ \E v \in AdmissionValues, e \in 0..MaxExpected :
          \E h \in 0..e :
             adm = [max |-> v, expected |-> e, healthy |-> h, allowed |-> TRUE, done |-> FALSE]

Admit ==
    /\ ~adm.done
    /\ adm' = [adm EXCEPT !.allowed = isAllowedRemediation(adm.max, adm.expected, adm.healthy),
                          !.done = TRUE]
    /\ UNCHANGED <<storeVars, pass, hist, router, wq>>

NextAdmission == Admit

SpecAdmission == InitAdmission /\ [][NextAdmission]_vars

-----------------------------------------------------------------------------
(* Properties of a pass.  In a state where Ended holds a pass has made its  *)
(* last call and stands at its return: the store is as that call left it   *)
(* and pass is the record of the pass.                                     *)

Ended == pass.pc = "done"

\* The step in which the pass lists the Machines, and the step in which it
\* reads the Node of its next target.
ListStep == pass.pc = "list" /\ pass'.pc # "list" /\ pass'.fault = NoFault

NodeReadStep == pass.pc = "nodes" /\ pass' # pass /\ pass'.fault = NoFault

EventCount(obj, reason) ==
    Cardinality({i \in 1..Len(pass.log) :
                    /\ pass.log[i].op = "Event"
                    /\ pass.log[i].obj = obj
                    /\ pass.log[i].reason = reason})

PatchEntries == {i \in 1..Len(pass.log) : pass.log[i].op = "Patch"}

AllPatchesOk == \A i \in PatchEntries : pass.log[i].reason = "ok"

Denied == pass.decided /\ ~pass.allowed

\* C1: in a pass where admission is denied, no Machine that lacked the
\* remediation condition before the pass carries it after the pass, and
\* exactly one RemediationRestricted event is recorded on the policy.
DenialMarksNothing ==
    Denied =>
        /\ \A m \in Machines : ~pass.condBefore[m] => ~remediation[m]
        /\ EventCount(PolicyObj, "RemediationRestricted") = 1

DenialMarksNothingWitness ==
    /\ Denied
    /\ pass.exit = "done"
    /\ \E m \in Range(pass.unhealthy) : ~pass.condBefore[m]

\* C2: once a pass completes without error, a target's Machine carries the
\* remediation condition if and only if that pass classified the target
\* unhealthy and admission was granted.
ConditionIffUnhealthyAndAdmitted ==
    (pass.exit = "done" /\ pass.err = NoErr) =>
        \A m \in Range(pass.mstatus.Targets) \cap present :
            remediation[m] <=> (pass.allowed /\ m \in Range(pass.unhealthy))

\* C3: remediation is allowed when MaxUnhealthy is unset; when it resolves,
\* it is allowed if and only if ExpectedMachines - CurrentHealthy is at most
\* the resolved value.
AdmissionDecision ==
    adm.done =>
        LET r == GetValueFromIntOrPercent(adm.max, adm.expected)
        IN  /\ adm.max = Nil => adm.allowed
            /\ (adm.max # Nil /\ r.ok) =>
                   (adm.allowed <=> (adm.expected - adm.healthy) <= r.val)

AdmissionDecisionWitness ==
    /\ adm.done
    /\ adm.max = FromInt(1)
    /\ adm.expected = 3
    /\ adm.healthy = 1
    /\ ~adm.allowed

\* C4: a MaxUnhealthy of p% resolves to floor(p * ExpectedMachines / 100):
\* a non-healthy count up to that bound is allowed, one above it is denied.
PercentageRoundsDown ==
    \A p \in 0..100 :
        (adm.done /\ adm.max = Percent(p)) =>
            (adm.allowed <=> (adm.expected - adm.healthy) <= (p * adm.expected) \div 100)

PercentageRoundsDownWitness ==
    /\ adm.done
    /\ adm.max = Percent(50)
    /\ adm.expected = 3
    /\ adm.healthy = 2
    /\ adm.allowed

\* C5: when MaxUnhealthy is set and does not resolve, a pass that reaches
\* the admission decision denies it whatever the counts, marks no Machine,
\* and returns no error unless a patch failed.
Unresolvable(v) == v # Nil /\ ~GetValueFromIntOrPercent(v, 0).ok

MalformedFailsClosed ==
    (pass.decided /\ Unresolvable(pass.max)) =>
        /\ ~pass.allowed
        /\ remediation = pass.condBefore
        /\ (Ended /\ AllPatchesOk) => pass.err = NoErr

MalformedFailsClosedWitness ==
    /\ pass.decided
    /\ Unresolvable(pass.max)
    /\ pass.mstatus.Targets # <<>>
    /\ pass.healthy = pass.mstatus.Targets
    /\ pass.exit = "done"
    /\ pass.err = NoErr

\* C6, as the specification states it: every denied pass returns a Result
\* that schedules the next pass after a positive delay.
DeniedPassRequestsTimedRetry ==
    (Denied /\ Ended) => pass.result.RequeueAfter > 0

\* C6, amended: a denied pass whose Machine patches all succeed returns a
\* Result with Requeue set and no RequeueAfter delay; a denied pass in which
\* a Machine patch fails returns that error and the empty Result.
DeniedPassRequeues ==
    (Denied /\ Ended) =>
        IF pass.reconcileErr = NoErr
        THEN pass.result = [Requeue |-> TRUE, RequeueAfter |-> 0]
        ELSE /\ pass.result = NoResult
             /\ ~AllPatchesOk
             /\ pass.err # NoErr

DeniedPassRequeuesWitness ==
    /\ Denied
    /\ Ended
    /\ pass.reconcileErr = NoErr
    /\ pass.result.Requeue

\* The step in which the pass fetches the policy and finds none, and the
\* step in which it fetches the Cluster of the policy and finds none.
PolicyNotFoundStep ==
    pass.pc = "idle" /\ pass'.pc # "idle" /\ ~mhcPresent /\ pass'.exit # "getError"

ClusterNotFoundStep ==
    pass.pc = "cluster" /\ pass'.pc # "cluster" /\ ~clusterPresent
        /\ pass'.exit # "clusterGetError"

\* The step ends the pass, and the pass has written nothing.
EndsHavingWrittenNothing ==
    /\ pass'.pc = "done"
    /\ pass'.log = <<>>
    /\ pass'.statusPatch = "none"
    /\ UNCHANGED storeVars

\* C7, as the specification states it: when the policy or its Cluster is
\* not found the pass returns no error, asks for no requeue and patches
\* neither the policy nor a Machine.
NotFoundCompletesSilently ==
    [][ (PolicyNotFoundStep \/ ClusterNotFoundStep) =>
            /\ pass'.err = NoErr
            /\ pass'.result = NoResult
            /\ EndsHavingWrittenNothing ]_vars

\* C7, amended: when the policy is not found the pass returns no error, asks
\* for no requeue and patches nothing; when the policy exists and its
\* Cluster is not found the pass returns the Cluster fetch error, with the
\* empty Result, and patches nothing.
NotFoundWritesNothing ==
    [][ /\ PolicyNotFoundStep =>
            (pass'.err = NoErr /\ pass'.result = NoResult /\ EndsHavingWrittenNothing)
        /\ ClusterNotFoundStep =>
            (pass'.err = <<"GetCluster">> /\ pass'.result = NoResult
                /\ EndsHavingWrittenNothing) ]_vars

NotFoundWritesNothingWitness ==
    /\ pass.exit = "clusterNotFound"
    /\ ~clusterPresent
    /\ pass.err # NoErr
    /\ remediation = pass.condBefore
    /\ \E m \in present : health[m] = Unhealthy

\* C8: when the policy or its Cluster is paused, a pass that fetched both
\* returns no error and no requeue, resolves no target, emits no event and
\* leaves the policy and every Machine as they were.  The policy is paused
\* as the pass fetched it, the Cluster as the pass fetches it.
PausedPassChangesNothing ==
    [][ ( /\ pass.pc = "cluster"
          /\ pass'.pc # "cluster"
          /\ pass'.exit # "clusterGetError"
          /\ clusterPresent
          /\ (pass.mPaused \/ clusterPaused) )
        => ( /\ pass'.pc = "done"
             /\ pass'.err = NoErr
             /\ pass'.result = NoResult
             /\ ~pass'.resolved
             /\ pass'.log = <<>>
             /\ pass'.statusPatch = "none"
             /\ UNCHANGED storeVars ) ]_vars

PausedPassWitness ==
    /\ pass.exit = "paused"
    /\ pass.mPaused
    /\ ~clusterPaused
    /\ ~mhcMeta.clusterLabel
    /\ remediation = pass.condBefore
    /\ \E m \in present : health[m] = Unhealthy /\ ~remediation[m]

\* C9, as the specification states it: no pass returns without the status
\* patch having been attempted.
StatusPatchOnEveryExit ==
    pass.exit # "none" => pass.statusPatch # "none"

\* C9, amended: the status patch is attempted on every exit path that
\* follows the creation of the patch helper, error returns included, and
\* it is the last call of the pass, with a request for the policy object
\* and a request for its status; a pass that returns earlier (policy not
\* found, policy or Cluster fetch error, paused, patch helper not created)
\* attempts no status patch.
StatusPatchOncePatchHelperBuilt ==
    pass.exit # "none" =>
        IF pass.exit \in {"getError", "mhcNotFound", "clusterGetError", "clusterNotFound",
                          "paused", "helperError"}
        THEN pass.statusPatch = "none" /\ pass.objPatch = "none" /\ pass.stPatch = "none"
        ELSE /\ pass.statusPatch \in {"ok", "failed"}
             /\ pass.objPatch \in {"ok", "failed"}
             /\ pass.stPatch \in {"ok", "failed"}
             /\ pass.statusPatch = "ok" <=> (pass.objPatch = "ok" /\ pass.stPatch = "ok")
             /\ Len(pass.log) > 0
             /\ pass.log[Len(pass.log)] = PatchCall(PolicyObj, pass.statusPatch = "ok")

StatusPatchOnErrorWitness ==
    /\ pass.exit = "reconcileError"
    /\ pass.statusPatch = "ok"
    /\ mhcMeta = FullMeta
    /\ pass.reconcileErr # NoErr

\* C10: when reconcile and the deferred status patch both fail, the error
\* returned carries both failures, the reconcile error first; when one of
\* them fails, the error returned is that failure; when neither fails it is
\* nil.
ErrorsAggregated ==
    pass.exit \in {"done", "reconcileError"} =>
        LET coreFailed  == pass.reconcileErr # NoErr
            patchFailed == pass.statusPatch = "failed"
        IN  /\ (coreFailed /\ patchFailed) =>
                  (/\ Len(pass.err) = 2
                   /\ pass.err[1] = pass.reconcileErr[1]
                   /\ pass.err[2] = "PatchStatus")
            /\ (coreFailed /\ ~patchFailed) => pass.err = pass.reconcileErr
            /\ (~coreFailed /\ patchFailed) => pass.err = <<"PatchStatus">>
            /\ (~coreFailed /\ ~patchFailed) => pass.err = NoErr

ErrorsAggregatedWitness ==
    /\ pass.reconcileErr = <<"PatchMachine">>
    /\ pass.statusPatch = "failed"
    /\ Len(pass.err) = 2

-----------------------------------------------------------------------------
(* Specification of the controller while Machines come and go: the policy  *)
(* and its Cluster stay in place and unpaused, Machines matching the       *)
(* selector are created and deleted at any time, and node health changes.  *)
(* No call of a pass fails.                                                *)

NextTargets ==
    \/ \E p \in {Reconciled} : Enqueue(p)
    \/ ReconcileRequest
    \/ \E f \in {NoFault} : GetCluster(f)
    \/ \E fail \in {FALSE} : GetClient(fail)
    \/ \E fail \in {FALSE} : watchClusterNodes(fail)
    \/ \E fail \in {FALSE} : ListMachines(fail)
    \/ \E fail \in {FALSE} : GetNode(fail)
    \/ \E fail \in BOOLEAN : PatchTarget(fail)
    \/ \E fail \in BOOLEAN : PatchObject(fail)
    \/ \E fail \in BOOLEAN : PatchStatus(fail)
    \/ Return
    \/ \E m \in Machines, c \in {Unhealthy} : AddMachine(m, c)
    \/ \E m \in Machines : RemoveMachine(m)

InitTargets == Init /\ maxUnhealthy = Nil

SpecTargets == InitTargets /\ [][NextTargets]_vars

\* C11: in every pass that resolves its targets, the targets are the
\* Machines the store holds when they are listed, the status the pass sets
\* has ExpectedMachines equal to the number of targets resolved in that pass
\* and Targets listing exactly those Machines, whatever the stored status
\* was, and that is the status stored when the request for the status
\* succeeds.
ExpectedMachinesRecomputed ==
    [][ /\ ListStep =>
            /\ Len(pass'.targets) = Cardinality(present)
            /\ Range(pass'.targets) = present
        /\ NodeReadStep => pass'.targets = pass.targets
        /\ (~pass.resolved /\ pass'.resolved) =>
            /\ pass'.mstatus.ExpectedMachines = Len(pass'.targets)
            /\ pass'.mstatus.Targets = pass'.targets
        /\ (pass.pc \in {"patch", "status"} /\ pass'.pc \in {"patch", "status", "substatus"}) =>
            pass'.mstatus = pass.mstatus
        /\ (pass.pc = "substatus" /\ pass.resolved) =>
            /\ pass'.stPatch = "ok" => status' = pass.mstatus
            /\ pass'.stPatch # "ok" => status' = status ]_vars

ExpectedMachinesRecomputedWitness ==
    /\ pass.resolved
    /\ pass.stPatch = "ok"
    /\ pass.statusBefore.ExpectedMachines = 2
    /\ status.ExpectedMachines = 1
    /\ status.Targets = <<2>>

-----------------------------------------------------------------------------
(* Specification of repeated passes: every pass is noted when it returns,  *)
(* so that a pass that follows it with no change in between is known.      *)

NextIdem ==
    \/ \E p \in {Reconciled} : Enqueue(p)
    \/ ReconcileRequestRecorded
    \/ \E f \in PassFaults : GetCluster(f)
    \/ \E fail \in BOOLEAN : GetClient(fail)
    \/ \E fail \in BOOLEAN : watchClusterNodes(fail)
    \/ \E fail \in BOOLEAN : ListMachines(fail)
    \/ \E fail \in BOOLEAN : GetNode(fail)
    \/ \E fail \in BOOLEAN : PatchTarget(fail)
    \/ \E fail \in BOOLEAN : PatchObject(fail)
    \/ \E fail \in BOOLEAN : PatchStatus(fail)
    \/ ReturnRecorded
    \/ \E m \in Machines, c \in {Healthy, Unhealthy} : NodeHealthChange(m, c)

InitIdem == Init /\ maxUnhealthy \in {Nil, FromInt(1)}

SpecIdem == InitIdem /\ [][NextIdem]_vars

\* The pass that has ended follows a pass with no change to the store since
\* that pass started, and the same calls succeeded and failed in both.
SamePassAgain(p) ==
    /\ hist.valid
    /\ p.pc = "done"
    /\ p.exit = hist.exit
    /\ p.fault = hist.fault
    /\ p.objPatch = hist.objPatch
    /\ p.stPatch = hist.stPatch

\* C12: a pass run again with no change to Machines, Nodes or the policy in
\* between, the same calls succeeding, leaves the stored status as the first
\* pass left it and adds no remediation condition.
SecondPassChangesNothing ==
    SamePassAgain(pass) =>
        /\ status = pass.statusBefore
        /\ mhcMeta = pass.metaBefore
        /\ \A m \in Machines : remediation[m] => pass.condBefore[m]

SecondPassWitness ==
    /\ pass.exit = "done"
    /\ SamePassAgain(pass)
    /\ pass.allowed
    /\ pass.err = NoErr
    /\ Len(pass.unhealthy) > 0
    /\ Len(pass.healthy) > 0
    /\ status = pass.statusBefore

-----------------------------------------------------------------------------
(* The mapping functions.  router.machines are the Machines of the store   *)
(* the mapping functions list, router.policies the policies next to the    *)
(* reconciled one; a Machine is [ns, cluster, labels, nodeRef], a policy   *)
(* [name, ns, clusterName, selector, clusterLabel], clusterLabel being the *)
(* value of the cluster label or "none" when the policy does not carry it. *)

\* The reconciled policy as the mapping functions list it: it carries the
\* cluster label once a pass has set and stored it.
ReconciledPolicy ==
    [name |-> "p0", ns |-> "ns1", clusterName |-> "c1", selector |-> {"a"},
     clusterLabel |-> IF mhcMeta.clusterLabel THEN "c1" ELSE "none"]

\* The policies in the store.
StoredPolicies ==
    IF mhcPresent THEN <<ReconciledPolicy>> \o router.policies ELSE router.policies

\* hasMatchingLabels: the selector matches the labels.
hasMatchingLabels(selector, labels) == selector # {} /\ selector \subseteq labels

\* util.ObjectKey
ObjectKey(p) == [Namespace |-> p.ns, Name |-> p.name]

RECURSIVE Keys(_)
Keys(policies) ==
    IF policies = <<>> THEN <<>>
    ELSE <<ObjectKey(Head(policies))>> \o Keys(Tail(policies))

\* Client.List with InNamespace and MatchingLabels{ClusterLabelName: cluster}.
ListMHC(ns, cluster) ==
    LET labelled(p) == p.ns = ns /\ p.clusterLabel = cluster
    IN  SelectSeq(StoredPolicies, labelled)

\* clusterToMachineHealthCheck for the Cluster c1 of namespace ns1.
clusterToMachineHealthCheck(listFail) ==
    IF listFail THEN <<>> ELSE Keys(ListMHC("ns1", "c1"))

machineToMachineHealthCheck(m, listFail) ==
    LET matching(p) == hasMatchingLabels(p.selector, m.labels)
    IN  IF listFail THEN <<>>
        ELSE Keys(SelectSeq(ListMHC(m.ns, m.cluster), matching))

\* getMachineFromNode returning the first Machine that references the node.
getMachineFromNodeFirst(nodeName, listFail) ==
    LET refers(m) == m.nodeRef = nodeName
        items == SelectSeq(router.machines, refers)
    IN  IF listFail THEN [machine |-> NoMachine, err |-> <<"failed getting machine list">>]
        ELSE IF Len(items) = 0
             THEN [machine |-> NoMachine, err |-> <<"expecting one machine for node">>]
             ELSE [machine |-> items[1], err |-> NoErr]

getMachineFromNode(nodeName, listFail) ==
    LET refers(m) == m.nodeRef = nodeName
        items == SelectSeq(router.machines, refers)
    IN  IF listFail THEN [machine |-> NoMachine, err |-> <<"failed getting machine list">>]
        ELSE IF Len(items) # 1
             THEN [machine |-> NoMachine, err |-> <<"expecting one machine for node">>]
             ELSE [machine |-> items[1], err |-> NoErr]

\* A watch hands a Machine, Node or Cluster change to its mapping function.
\* One call of a mapping function is followed at a time.
MachineEvent(i, listFail) ==
    /\ ~router.event.pending
    /\ i \in 1..Len(router.machines)
    /\ router' = [router EXCEPT
                    !.event = [NoEvent EXCEPT !.kind = "machine", !.machine = i,
                                              !.mhcListFail = listFail],
                    !.requests = machineToMachineHealthCheck(router.machines[i], listFail)]
    /\ UNCHANGED <<storeVars, pass, adm, hist, wq>>

\* nodeToMachineHealthCheck up to the answer of getMachineFromNode: the
\* Machines are listed; with no Machine for the node there is no request.
NodeEvent(n, machineListFail) ==
    LET found == getMachineFromNode(n, machineListFail)
        none  == found.machine = NoMachine \/ found.err # NoErr
    IN  /\ ~router.event.pending
        /\ router' = [router EXCEPT
                        !.event = [NoEvent EXCEPT !.kind = "node", !.node = n,
                                                  !.machineListFail = machineListFail,
                                                  !.found = found.machine,
                                                  !.pending = ~none],
                        !.requests = <<>>]
        /\ UNCHANGED <<storeVars, pass, adm, hist, wq>>

\* nodeToMachineHealthCheck from there: the Machine found goes through
\* machineToMachineHealthCheck, which lists the policies as they are now.
nodeToMachineHealthCheck(mhcListFail) ==
    /\ router.event.pending
    /\ router' = [router EXCEPT
                    !.event.pending = FALSE,
                    !.event.mhcListFail = mhcListFail,
                    !.requests = machineToMachineHealthCheck(router.event.found, mhcListFail)]
    /\ UNCHANGED <<storeVars, pass, adm, hist, wq>>

\* The Cluster watch passes the changes of an unpaused Cluster only.
ClusterEvent(listFail) ==
    /\ ~router.event.pending
    /\ clusterPresent
    /\ ~clusterPaused
    /\ router' = [router EXCEPT
                    !.event = [NoEvent EXCEPT !.kind = "cluster", !.mhcListFail = listFail],
                    !.requests = clusterToMachineHealthCheck(listFail)]
    /\ UNCHANGED <<storeVars, pass, adm, hist, wq>>

\* The store changes under the mapping functions: a Machine is deleted, a
\* second policy is created or deleted.
DeleteMachine(i) ==
    /\ i \in 1..Len(router.machines)
    /\ router' = [router EXCEPT
                    !.machines = SubSeq(@, 1, i - 1) \o SubSeq(@, i + 1, Len(@))]
    /\ UNCHANGED <<storeVars, pass, adm, hist, wq>>

CreatePolicy(p) ==
    /\ router.policies = <<>>
    /\ router' = [router EXCEPT !.policies = <<p>>]
    /\ UNCHANGED <<storeVars, pass, adm, hist, wq>>

DeletePolicy ==
    /\ router.policies # <<>>
    /\ router' = [router EXCEPT !.policies = <<>>]
    /\ UNCHANGED <<storeVars, pass, adm, hist, wq>>

RouterNodes == {"n1"}

\* The Machines and the second policy the mapping functions are tried on.
RouterMachineOne ==
    [ns : {"ns1", "ns2"}, cluster : {"c1", "c2"}, labels : {{"a"}, {"b"}},
     nodeRef : RouterNodes \cup {"none"}]

RouterMachineTwo ==
    [ns : {"ns1"}, cluster : {"c1"}, labels : {{"a"}, {"b"}},
     nodeRef : RouterNodes \cup {"none"}]

RouterPolicy ==
    {p \in [name : {"p1"}, ns : {"ns1"}, clusterName : {"c1", "c2"},
            selector : {{"a"}, {"b"}}, clusterLabel : {"none", "c1", "c2"}] :
        p.clusterLabel \in {"none", p.clusterName}}

\* The policy is as created, or as a pass over no Machine has left it.
InitRouter ==
    /\ mhcPresent = TRUE
    /\ clusterPresent = TRUE
    /\ mhcPaused = FALSE
    /\ clusterPaused \in BOOLEAN
    /\ maxUnhealthy = Nil
    /\ mhcMeta \in {EmptyMeta, FullMeta}
    /\ status = EmptyStatus
    /\ present = {}
    /\ health = [m \in Machines |-> Healthy]
    /\ remediation = [m \in Machines |-> FALSE]
    /\ pass = NoPass
    /\ adm = NoAdm
    /\ hist = NoHist
    /\ wq = NoQueue
    /\ \E m1 \in RouterMachineOne, m2 \in RouterMachineTwo :
          router = [NoRouter EXCEPT !.machines = <<m1, m2>>]

NextRouter ==
    \/ \E i \in 1..2, lf \in BOOLEAN : MachineEvent(i, lf)
    \/ \E n \in RouterNodes, mlf \in BOOLEAN : NodeEvent(n, mlf)
    \/ \E plf \in BOOLEAN : nodeToMachineHealthCheck(plf)
    \/ \E lf \in BOOLEAN : ClusterEvent(lf)
    \/ \E i \in 1..2 : DeleteMachine(i)
    \/ \E p \in RouterPolicy : CreatePolicy(p)
    \/ DeletePolicy

SpecRouter == InitRouter /\ [][NextRouter]_vars

\* The Machines that reference the node.
Owners(nodeName) ==
    {i \in 1..Len(router.machines) : router.machines[i].nodeRef = nodeName}

\* A mapping function has just been called.
Mapped(kind) == router'.event # router.event /\ router'.event.kind = kind

\* C13: a Node change gives requests only when exactly one Machine references
\* the node, and then those of the Machine mapping applied to that Machine;
\* with no or several such Machines, or a failing Machine list, it gives none.
\* The Machines are those listed when the Node change is handled, the
\* policies those listed when the Machine found is mapped.
NodeMapsThroughItsOnlyMachine ==
    [][ /\ (Mapped("node") /\ ~router.event.pending) =>
            LET e == router'.event
                owners == Owners(e.node)
            IN  /\ router'.requests = <<>>
                /\ e.pending <=> (~e.machineListFail /\ Cardinality(owners) = 1)
                /\ e.pending => \E i \in owners : e.found = router.machines[i]
        /\ (router.event.pending /\ ~router'.event.pending) =>
            router'.requests =
                machineToMachineHealthCheck(router.event.found, router'.event.mhcListFail)
        /\ (router.event.pending /\ router'.event.pending) =>
            router'.event = router.event /\ router'.requests = router.requests ]_vars

\* A Node change has given two requests, for a Machine that was deleted
\* after it was looked up.
NodeMapsWitness ==
    /\ router.event.kind = "node"
    /\ ~router.event.pending
    /\ ~router.event.machineListFail
    /\ Owners(router.event.node) = {}
    /\ Len(router.requests) = 2

\* The policies of the Machine's namespace and cluster whose selector matches
\* the Machine's labels.
PoliciesMonitoring(m) ==
    {p \in Range(StoredPolicies) :
        /\ p.ns = m.ns
        /\ p.clusterName = m.cluster
        /\ hasMatchingLabels(p.selector, m.labels)}

\* C14: a Machine change maps to exactly the requests for the policies of the
\* Machine's cluster and namespace whose selector matches its labels.
MachineMapsToItsPolicies ==
    [][ (Mapped("machine") /\ ~router'.event.mhcListFail) =>
          LET m == router.machines[router'.event.machine]
          IN  Range(router'.requests) = {ObjectKey(p) : p \in PoliciesMonitoring(m)} ]_vars

-----------------------------------------------------------------------------
(* Specification of the next check: pending targets with different times   *)
(* to their next check.                                                    *)

NextRequeue ==
    \/ \E p \in {Reconciled} : Enqueue(p)
    \/ ReconcileRequest
    \/ \E f \in {NoFault} : GetCluster(f)
    \/ \E fail \in {FALSE} : GetClient(fail)
    \/ \E fail \in {FALSE} : watchClusterNodes(fail)
    \/ \E fail \in {FALSE} : ListMachines(fail)
    \/ \E fail \in {FALSE} : GetNode(fail)
    \/ \E fail \in {FALSE} : PatchTarget(fail)
    \/ \E fail \in {FALSE} : PatchObject(fail)
    \/ \E fail \in {FALSE} : PatchStatus(fail)
    \/ Return
    \/ \E m \in Machines, c \in TimedClasses \ {Unhealthy} : NodeHealthChange(m, c)

InitRequeue == Init /\ maxUnhealthy \in {Nil, FromString(<<"x">>)}

SpecRequeue == InitRequeue /\ [][NextRequeue]_vars

\* The times to the next check of the targets that were pending when the
\* pass p read their Nodes, and the times the pass has kept.
TimesRead(p) ==
    {p.node[t].nextCheck : t \in {u \in Range(p.targets) : p.node[u] \notin {Healthy, Unhealthy}}}

PendingTimes == Range(pass.nextCheckTimes)


\* C15: a pass that completes without error with a pending target asks for a
\* requeue: after the least time to a next check when remediation is allowed,
\* at once when it is denied; an allowed pass with no pending target asks for
\* none.  A target is pending by what its Node said when the pass read it.
RequeueByNextCheck ==
    [][ /\ NodeReadStep =>
              pass'.node = [pass.node EXCEPT ![pass.targets[pass.next]] =
                                                 health[pass.targets[pass.next]]]
        /\ (~pass.resolved /\ pass'.resolved) =>
              Range(pass'.nextCheckTimes) = TimesRead(pass')
        /\ (pass'.exit = "done" /\ pass'.resolved /\ pass'.err = NoErr) =>
            LET times == Range(pass'.nextCheckTimes)
            IN  /\ (times # {} /\ pass'.allowed) =>
                      /\ ~pass'.result.Requeue
                      /\ pass'.result.RequeueAfter \in times
                      /\ \A d \in times : pass'.result.RequeueAfter <= d
                /\ (times # {} /\ ~pass'.allowed) => pass'.result = DeniedResult
                /\ (times = {} /\ pass'.allowed) => pass'.result = NoResult ]_vars

RequeueByNextCheckWitness ==
    /\ pass.exit = "done"
    /\ pass.err = NoErr
    /\ pass.allowed
    /\ PendingTimes = {1, 2}
    /\ pass.result.RequeueAfter = 1

-----------------------------------------------------------------------------
(* The workers and the queue *)

\* A free worker takes the first request and starts the pass of a policy
\* other than the one this model follows through its pass.
StartPass ==
    /\ \E p \in Policies \ {Reconciled} : Handed(p)
    /\ wq' = Taken
    /\ UNCHANGED <<storeVars, pass, adm, hist, router>>

\* The pass of such a policy p returns, asking for a requeue or not.
FinishPass(p, requeue) ==
    /\ p # Reconciled
    /\ p \in Range(wq.processing)
    /\ wq' = Finished(p, requeue)
    /\ UNCHANGED <<storeVars, pass, adm, hist, router>>

\* The delay of a request handed to the rate limiter is over.
DelayedAdd(p) ==
    /\ p \in wq.waiting
    /\ wq' = [QueueAdd(wq, p) EXCEPT !.waiting = @ \ {p}, !.owed = @ \cup {p}]
    /\ UNCHANGED <<storeVars, pass, adm, hist, router>>

NextQueue ==
    \/ \E p \in Policies : Enqueue(p)
    \/ ReconcileRequest
    \/ \E f \in {NoFault} : GetCluster(f)
    \/ \E fail \in {FALSE} : GetClient(fail)
    \/ \E fail \in {FALSE} : watchClusterNodes(fail)
    \/ \E fail \in {FALSE} : ListMachines(fail)
    \/ \E fail \in BOOLEAN : PatchObject(fail)
    \/ \E fail \in BOOLEAN : PatchStatus(fail)
    \/ Return
    \/ StartPass
    \/ \E p \in Policies, rq \in BOOLEAN : FinishPass(p, rq)
    \/ \E p \in Policies : DelayedAdd(p)

InitQueue ==
    /\ mhcPresent = TRUE
    /\ clusterPresent = TRUE
    /\ mhcPaused = FALSE
    /\ clusterPaused = FALSE
    /\ maxUnhealthy = Nil
    /\ mhcMeta = EmptyMeta
    /\ status = EmptyStatus
    /\ present = {}
    /\ health = [m \in Machines |-> Healthy]
    /\ remediation = [m \in Machines |-> FALSE]
    /\ pass = NoPass
    /\ adm = NoAdm
    /\ hist = NoHist
    /\ router = NoRouter
    /\ wq = NoQueue

SpecQueue == InitQueue /\ [][NextQueue]_vars

Occurrences(seq, p) == Cardinality({i \in 1..Len(seq) : seq[i] = p})

\* C16: no policy has two passes running or two requests queued; a trigger
\* that arrives while the pass of its policy runs leaves the running passes
\* alone and is answered by one request queued when that pass returns; a
\* trigger no pass has started after is queued or has its pass running.
\* The pass this model follows runs exactly while its request is processed.
SamePolicySerialized ==
    [][ \A p \in Policies :
          /\ Occurrences(wq'.processing, p) <= 1
          /\ Occurrences(wq'.queue, p) <= 1
          /\ (p \in wq'.owed /\ p \notin wq.owed) => wq'.processing = wq.processing
          /\ p \in wq'.owed => p \in Range(wq'.queue) \cup Range(wq'.processing)
          /\ (p \in Range(wq.processing) /\ p \notin Range(wq'.processing)) =>
                Occurrences(wq'.queue, p) = IF p \in wq.owed THEN 1 ELSE 0
          /\ (p = Reconciled) =>
                /\ (pass'.pc # "idle") <=> (p \in Range(wq'.processing))
                /\ (p \in wq'.owed /\ p \notin wq.owed) => pass' = pass ]_vars

SamePolicySerializedWitness ==
    /\ Len(wq.processing) = 2
    /\ pass.pc = "status"
    /\ Reconciled \in wq.owed
    /\ \E p \in Range(wq.processing) : p \in wq.owed /\ p \notin Range(wq.queue)
    /\ wq.queue # <<>>

-----------------------------------------------------------------------------
(* Failing passes and the events of a pass *)

MachinePatches == {i \in PatchEntries : pass.log[i].obj # PolicyObj}

FailedMachinePatches == {i \in MachinePatches : pass.log[i].reason = "failed"}

\* The targets whose patch failed, and the targets errList has an entry for.
FailedTargets == {pass.log[f].obj : f \in FailedMachinePatches}

Collected == {pass.errList[i].machine : i \in 1..Len(pass.errList)}

\* A pass in which a Machine patch fails stops there: reconcile returns an
\* error with an empty result, no patch follows the failed one, no Machine is
\* patched twice, and the Machines marked by the patches that went through
\* before it carry the remediation condition in the store.
AbortsWithoutRollback ==
    /\ \A f \in FailedMachinePatches, i \in MachinePatches : i <= f
    /\ \A i, j \in MachinePatches : i # j => pass.log[i].obj # pass.log[j].obj
    /\ pass.pc \in {"status", "substatus", "done"}
    /\ pass.reconcileErr # NoErr
    /\ pass.result = NoResult
    /\ Ended => (pass.exit = "reconcileError" /\ pass.err # NoErr)
    /\ pass.allowed =>
          \A i \in MachinePatches :
             (pass.log[i].reason = "ok" /\ pass.log[i].obj \in Range(pass.unhealthy))
                => remediation[pass.log[i].obj]

\* C17, as the specification states it: a pass in which a Machine patch
\* fails aborts and returns an error, the patches applied before stay
\* applied, and the error returned is the aggregate over the targets whose
\* patch failed.
PatchFailureAggregated ==
    FailedMachinePatches # {} =>
        /\ AbortsWithoutRollback
        /\ Collected = FailedTargets
        /\ pass.path = "errList"

\* C17, amended: a pass in which a Machine patch fails aborts and returns
\* an error, and the patches applied before stay applied; one patch has
\* failed, no error is collected in errList, and the error reconcile
\* returns is the error of that one patch, to which the deferred handler
\* adds the error of the policy patch when that fails too.
PatchFailureAborts ==
    FailedMachinePatches # {} =>
        /\ AbortsWithoutRollback
        /\ Cardinality(FailedMachinePatches) = 1
        /\ FailedTargets = {pass.fault.machine}
        /\ pass.fault.call = "PatchMachine"
        /\ pass.errList = <<>>
        /\ pass.path \in {"deniedPatchError", "markPatchError", "healthyPatchError"}
        /\ pass.reconcileErr = <<"PatchMachine">>
        /\ Ended => pass.err = IF pass.statusPatch = "failed"
                               THEN <<"PatchMachine", "PatchStatus">>
                               ELSE <<"PatchMachine">>

PatchFailureAbortsWitness ==
    /\ Ended
    /\ pass.path = "markPatchError"
    /\ pass.err = <<"PatchMachine">>
    /\ Len(pass.unhealthy) = 2
    /\ pass.fault.machine = pass.unhealthy[2]
    /\ ~pass.condBefore[pass.unhealthy[1]]
    /\ remediation[pass.unhealthy[1]]
    /\ ~remediation[pass.unhealthy[2]]

\* C18 as claimed: every pass that returns an error has recorded a
\* ReconcileError event on the policy.
ErrorAlwaysHasEvent ==
    (pass.exit # "none" /\ pass.err # NoErr) =>
        EventCount(PolicyObj, "ReconcileError") >= 1

\* C18: a pass records one ReconcileError event on the policy when reconcile
\* fails (remote access, node watch, target listing, Machine patch) and none
\* otherwise: not when the policy or Cluster fetch or the patch helper fails,
\* nor when only the deferred status patch fails.
ErrorEventIffReconcileFails ==
    pass.exit # "none" =>
        /\ pass.reconcileErr # NoErr => EventCount(PolicyObj, "ReconcileError") = 1
        /\ pass.reconcileErr = NoErr => EventCount(PolicyObj, "ReconcileError") = 0
        /\ pass.exit \in {"getError", "clusterGetError", "clusterNotFound", "helperError"} =>
              (pass.err # NoErr /\ pass.reconcileErr = NoErr)
        /\ (pass.exit = "done" /\ pass.statusPatch = "failed") =>
              (pass.err = <<"PatchStatus">> /\ pass.reconcileErr = NoErr)

ErrorEventWitness ==
    /\ pass.exit = "reconcileError"
    /\ pass.reconcileErr = <<"GetTargets">>
    /\ EventCount(PolicyObj, "ReconcileError") = 1

RestrictedEvents ==
    {i \in 1..Len(pass.log) :
        pass.log[i].op = "Event" /\ pass.log[i].reason = "RemediationRestricted"}

\* C20: the RemediationRestricted event of a denied pass reports as total the
\* number of targets and as unhealthy the number of targets that are not
\* healthy, ExpectedMachines - CurrentHealthy.
RestrictedEventReportsUnhealthy ==
    Denied =>
        \A i \in RestrictedEvents :
           /\ pass.log[i].args.total = pass.mstatus.ExpectedMachines
           /\ pass.log[i].args.maxUnhealthy = pass.max
           /\ pass.log[i].args.unhealthy =
                 pass.mstatus.ExpectedMachines - pass.mstatus.CurrentHealthy

-----------------------------------------------------------------------------
(* Specification of the controller under fair scheduling: a pass that has  *)
(* run returns, so that the worker takes the next request.                 *)

NextLive ==
    \/ \E p \in {Reconciled} : Enqueue(p)
    \/ ReconcileRequest
    \/ \E f \in {NoFault} : GetCluster(f)
    \/ \E fail \in {FALSE} : GetClient(fail)
    \/ \E fail \in {FALSE} : watchClusterNodes(fail)
    \/ \E fail \in {FALSE} : ListMachines(fail)
    \/ \E fail \in {FALSE} : GetNode(fail)
    \/ \E fail \in BOOLEAN : PatchTarget(fail)
    \/ \E fail \in {FALSE} : PatchObject(fail)
    \/ \E fail \in {FALSE} : PatchStatus(fail)
    \/ Return
    \/ \E m \in Machines, c \in {Healthy, Unhealthy} : NodeHealthChange(m, c)
    \/ \E b \in BOOLEAN : SetClusterPaused(b)

SpecLive == Init /\ [][NextLive]_vars /\ WF_vars(Return)

\* A pass has just run in which every call succeeded.
CleanPass == Ended /\ pass.err = NoErr

\* isAllowedRemediation on the targets as they are now.
AdmissionGranted ==
    isAllowedRemediation(maxUnhealthy, Cardinality(present),
                         Cardinality({t \in present : health[t] = Healthy}))

\* Machine m is an unhealthy target of a present, unpaused policy that is
\* allowed to remediate.
AwaitsRemediation(m) ==
    /\ m \in present
    /\ health[m] = Unhealthy
    /\ AdmissionGranted
    /\ mhcPresent /\ clusterPresent /\ ~IsPaused(clusterPaused, mhcPaused)

\* The one decision of a pass: followed by the whole pass, with the event
\* of a denial before any Machine is patched.
OneDecisionPerPass ==
    /\ ~pass.decided => (MachinePatches = {} /\ RestrictedEvents = {})
    /\ pass.decided =>
          /\ pass.mstatus.ExpectedMachines = Len(pass.mstatus.Targets)
          /\ pass.mstatus.CurrentHealthy = Len(pass.healthy)
          /\ pass.allowed = isAllowedRemediation(pass.max, pass.mstatus.ExpectedMachines,
                                                 pass.mstatus.CurrentHealthy)
          /\ pass.allowed => RestrictedEvents = {}
          /\ ~pass.allowed =>
                /\ Cardinality(RestrictedEvents) = 1
                /\ \A e \in RestrictedEvents, i \in MachinePatches : e < i
                /\ \A m \in Machines : remediation[m] = pass.condBefore[m]

\* The decision is taken once, when the Node of the last listed Machine is
\* read (at the list when it is empty), on the counts over all the targets
\* listed, each as its Node said when it was read, and stands to the end of
\* the pass.
DecidedOnAllTargets ==
    /\ ListStep => pass'.targets = SortedSeq(present)
    /\ NodeReadStep =>
          /\ pass'.targets = pass.targets
          /\ pass'.node = [pass.node EXCEPT ![pass.targets[pass.next]] =
                                               health[pass.targets[pass.next]]]
    /\ (~pass.decided /\ pass'.decided) =>
          /\ \/ pass.pc = "list" /\ pass'.targets = <<>>
             \/ pass.pc = "nodes" /\ pass.next = Len(pass.targets)
          /\ pass'.mstatus.ExpectedMachines = Len(pass'.targets)
          /\ pass'.mstatus.CurrentHealthy =
                Cardinality({t \in Range(pass'.targets) : pass'.node[t] = Healthy})
          /\ pass'.allowed = isAllowedRemediation(pass.max, pass'.mstatus.ExpectedMachines,
                                                  pass'.mstatus.CurrentHealthy)
    /\ (pass.decided /\ pass'.decided) =>
          (pass'.allowed = pass.allowed /\ pass'.mstatus = pass.mstatus)

\* C19: when passes in which every call succeeds keep running, an unhealthy
\* target of a present, unpaused policy that is allowed to remediate comes to
\* carry the remediation condition, unless it stops being one; and every
\* pass takes one admission decision, on the counts over all its targets and
\* before it patches a Machine.
EventuallyRemediated ==
    /\ []OneDecisionPerPass
    /\ [][DecidedOnAllTargets]_vars
    /\ ([]<>CleanPass) =>
          \A m \in Machines :
             AwaitsRemediation(m) ~> (remediation[m] \/ ~AwaitsRemediation(m))

EventuallyRemediatedWitness ==
    /\ pass.exit = "done"
    /\ pass.allowed
    /\ hist.valid = FALSE
    /\ \E m \in Machines :
          /\ AwaitsRemediation(m)
          /\ ~pass.condBefore[m]
          /\ remediation[m]

-----------------------------------------------------------------------------
(* The order of patches and events in a pass allowed to remediate *)

MarkEvents ==
    {i \in 1..Len(pass.log) :
        pass.log[i].op = "Event" /\ pass.log[i].reason = "MachineMarkedUnhealthy"}

\* The entries of the log that patch a target of seq, and those that succeed.
PatchesOf(seq) == {i \in MachinePatches : pass.log[i].obj \in Range(seq)}

OkPatchesOf(seq) == {i \in PatchesOf(seq) : pass.log[i].reason = "ok"}

\* The place of Machine t in seq, 0 when it is not there.
PlaceIn(seq, t) ==
    IF t \in Range(seq) THEN CHOOSE i \in 1..Len(seq) : seq[i] = t ELSE 0

\* C21: in a pass allowed to remediate, every MachineMarkedUnhealthy event
\* follows at once the successful patch of its Machine; the Machines with
\* such an event are the unhealthy targets patched successfully, one event
\* each; every unhealthy target is patched before any healthy one; and when
\* the patch of an unhealthy target fails, neither it nor a later target has
\* an event and no healthy target is patched.
MarkEventFollowsPatch ==
    (pass.decided /\ pass.allowed) =>
        /\ \A e \in MarkEvents :
              /\ e > 1
              /\ pass.log[e - 1] = PatchCall(pass.log[e].obj, TRUE)
        /\ {pass.log[e].obj : e \in MarkEvents}
              = {pass.log[i].obj : i \in OkPatchesOf(pass.unhealthy)}
        /\ \A e1, e2 \in MarkEvents : e1 # e2 => pass.log[e1].obj # pass.log[e2].obj
        /\ \A i \in PatchesOf(pass.unhealthy), j \in PatchesOf(pass.healthy) : i < j
        /\ \A f \in FailedMachinePatches :
              pass.log[f].obj \in Range(pass.unhealthy) =>
                 /\ PatchesOf(pass.healthy) = {}
                 /\ \A e \in MarkEvents :
                       PlaceIn(pass.unhealthy, pass.log[e].obj)
                          < PlaceIn(pass.unhealthy, pass.log[f].obj)

MarkEventFollowsPatchWitness ==
    /\ pass.decided /\ pass.allowed
    /\ pass.path = "markPatchError"
    /\ Len(pass.unhealthy) = 2
    /\ pass.fault.machine = pass.unhealthy[2]
    /\ {pass.log[e].obj : e \in MarkEvents} = {pass.unhealthy[1]}
    /\ PatchesOf(pass.healthy) = {}

====
